---- MODULE Spec2Model ----
(***************************************************************************)
(* A model of safemdp/SafeMDP_class.py: the breadth-first computations     *)
(* reachable_set and returnable_set over a directed graph whose edges      *)
(* carry an action and a safe flag, and the SafeMDP object that combines   *)
(* them into S_hat.                                                        *)
(***************************************************************************)
EXTENDS Integers, Sequences, FiniteSets, TLC

\* the graphs have NumNodes nodes; the graphs of a SafeMDP object and of the
\* statement-by-statement traversals have at most MaxEdges edges, the graphs the
\* two functions are applied to as a whole at most MaxCallEdges; the seed lists
\* passed to the functions have at most MaxSeedLen entries
NumNodes == 3
MaxEdges == 2
MaxCallEdges == 3
MaxSeedLen == 2

Nodes == 0 .. (NumNodes - 1)

(***************************************************************************)
(* Graphs.  A networkx DiGraph is a dict of adjacency dicts kept in        *)
(* insertion order: graph[node] is the sequence of the edges leaving node, *)
(* each with its target and its data dict {action, safe}.  There is at     *)
(* most one edge per (node, next_node).                                    *)
(***************************************************************************)
Pairs == Nodes \X Nodes

Topologies(E) == {P \in SUBSET Pairs : Cardinality(P) <= E}

Targets(P, u) == {v \in Nodes : <<u, v>> \in P}

MaxOf(S) == CHOOSE m \in S : \A x \in S : x <= m

TopologyDegree(P) == MaxOf({Cardinality(Targets(P, u)) : u \in Nodes})

\* every adjacency list of a node with target set T and actions 1..d
AdjLists(T, d) ==
    {s \in [1 .. Cardinality(T) -> [next : T, action : 1 .. d, safe : BOOLEAN]] :
        \A i, j \in 1 .. Cardinality(T) : i # j => s[i].next # s[j].next}

RECURSIVE GraphsOver(_, _)
GraphsOver(P, k) ==
    IF k = 0 THEN {<<>>}
    ELSE {Append(g, a) : g \in GraphsOver(P, k - 1),
                         a \in AdjLists(Targets(P, k - 1), TopologyDegree(P))}

\* every graph on Nodes with at most E edges and actions 1..max_out_degree
GraphsWithin(E) ==
    UNION {{[u \in Nodes |-> g[u + 1]] : g \in GraphsOver(P, NumNodes)} :
              P \in Topologies(E)}

Range(s) == {s[i] : i \in 1 .. Len(s)}

\* the data model's "exactly one edge per (node, action)"
UniqueActions(g) ==
    \A u \in Nodes : \A i, j \in 1 .. Len(g[u]) : i # j => g[u][i].action # g[u][j].action

SafetyGraphs == {g \in GraphsWithin(MaxEdges) : UniqueActions(g)}

out_degree(g, u) == Len(g[u])

max_out_degree(g) == MaxOf({out_degree(g, u) : u \in Nodes})

has_edge(g, u, v) == \E i \in 1 .. Len(g[u]) : g[u][i].next = v

get_edge_data(g, u, v) == g[u][CHOOSE i \in 1 .. Len(g[u]) : g[u][i].next = v]

RECURSIVE PredsUpTo(_, _, _)
PredsUpTo(g, v, k) ==
    IF k = 0 THEN <<>>
    ELSE LET rest == PredsUpTo(g, v, k - 1)
         IN IF has_edge(g, k - 1, v) THEN Append(rest, k - 1) ELSE rest

\* graph.reverse(): for every node the sources of the edges into it, in the
\* order in which reverse() adds them when the nodes of the forward graph were
\* inserted in ascending order
reverse(g) == [v \in Nodes |-> PredsUpTo(g, v, NumNodes)]

Orderings(s) ==
    {p \in [1 .. Len(s) -> {s[i] : i \in 1 .. Len(s)}] :
        \A i, j \in 1 .. Len(s) : i # j => p[i] # p[j]}

\* graph.reverse() for any order in which the forward graph was built: the
\* sources of the edges into each node, in any order
ReverseViews(g) ==
    {rg \in [Nodes -> UNION {Orderings(reverse(g)[v]) : v \in Nodes}] :
        \A v \in Nodes : rg[v] \in Orderings(reverse(g)[v])}

(***************************************************************************)
(* Safe-set matrices: (num_nodes, max_out_degree + 1) booleans.            *)
(***************************************************************************)
Columns(g) == 0 .. max_out_degree(g)

AllFalse(g) == [n \in Nodes |-> [a \in Columns(g) |-> FALSE]]

SubsetOf(m1, m2) == \A n \in DOMAIN m1 : \A a \in DOMAIN m1[n] : m1[n][a] => m2[n][a]

And(m1, m2) == [n \in DOMAIN m1 |-> [a \in DOMAIN m1[n] |-> m1[n][a] /\ m2[n][a]]]

\* MarkSeeds without line 136 / 194: the seeds' column 0 is never set
MarkSeeds_Skip(visited, initial_nodes) == visited

RECURSIVE MarkSeeds(_, _)
MarkSeeds(visited, initial_nodes) ==
    IF initial_nodes = <<>> THEN visited
    ELSE MarkSeeds([visited EXCEPT ![Head(initial_nodes)][0] = TRUE], Tail(initial_nodes))

(***************************************************************************)
(* reachable_set                                                           *)
(***************************************************************************)
\* ReachEdge without the test of data['safe']
ReachEdge_IgnoreSafe(visited, stack, node, data) ==
    IF ~visited[node][data.action]
    THEN LET v1 == [visited EXCEPT ![node][data.action] = TRUE]
         IN IF ~v1[data.next][0]
            THEN [visited |-> [v1 EXCEPT ![data.next][0] = TRUE],
                  stack |-> Append(stack, data.next),
                  assigned |-> <<<<node, data.action>>, <<data.next, 0>>>>]
            ELSE [visited |-> v1, stack |-> stack,
                  assigned |-> <<<<node, data.action>>>>]
    ELSE [visited |-> visited, stack |-> stack, assigned |-> <<>>]

\* ReachEdge with the test of data['safe'] negated
ReachEdge_Inverted(visited, stack, node, data) ==
    IF ~visited[node][data.action] /\ ~data.safe
    THEN LET v1 == [visited EXCEPT ![node][data.action] = TRUE]
         IN IF ~v1[data.next][0]
            THEN [visited |-> [v1 EXCEPT ![data.next][0] = TRUE],
                  stack |-> Append(stack, data.next),
                  assigned |-> <<<<node, data.action>>, <<data.next, 0>>>>]
            ELSE [visited |-> v1, stack |-> stack,
                  assigned |-> <<<<node, data.action>>>>]
    ELSE [visited |-> visited, stack |-> stack, assigned |-> <<>>]

\* ReachEdge without the test of visited[next_node, 0] before the append
ReachEdge_AlwaysPush(visited, stack, node, data) ==
    IF ~visited[node][data.action] /\ data.safe
    THEN [visited |-> [visited EXCEPT ![node][data.action] = TRUE,
                                      ![data.next][0] = TRUE],
          stack |-> Append(stack, data.next),
          assigned |-> <<<<node, data.action>>, <<data.next, 0>>>>]
    ELSE [visited |-> visited, stack |-> stack, assigned |-> <<>>]

\* one iteration of the for loop over the edges leaving node; assigned lists
\* the cells the iteration assigns True to
ReachEdge(visited, stack, node, data) ==
    IF ~visited[node][data.action] /\ data.safe
    THEN LET v1 == [visited EXCEPT ![node][data.action] = TRUE]
         IN IF ~v1[data.next][0]
            THEN [visited |-> [v1 EXCEPT ![data.next][0] = TRUE],
                  stack |-> Append(stack, data.next),
                  assigned |-> <<<<node, data.action>>, <<data.next, 0>>>>]
            ELSE [visited |-> v1, stack |-> stack,
                  assigned |-> <<<<node, data.action>>>>]
    ELSE [visited |-> visited, stack |-> stack, assigned |-> <<>>]

RECURSIVE ReachEdges(_, _, _, _)
ReachEdges(visited, stack, node, edges) ==
    IF edges = <<>> THEN [visited |-> visited, stack |-> stack]
    ELSE LET r == ReachEdge(visited, stack, node, Head(edges))
         IN ReachEdges(r.visited, r.stack, node, Tail(edges))

RECURSIVE ReachLoop(_, _, _)
ReachLoop(g, visited, stack) ==
    IF stack = <<>> THEN visited
    ELSE LET r == ReachEdges(visited, Tail(stack), Head(stack), g[Head(stack)])
         IN ReachLoop(g, r.visited, r.stack)

\* the whole call with an out matrix: raises on an empty seed list, else
\* leaves the result in out
reachable_set(g, initial_nodes, out) ==
    IF initial_nodes = <<>>
    THEN [raised |-> TRUE, out |-> out]
    ELSE [raised |-> FALSE,
          out |-> ReachLoop(g, MarkSeeds(out, initial_nodes), initial_nodes)]

(***************************************************************************)
(* returnable_set                                                          *)
(***************************************************************************)
\* ReturnEdge testing visited[node, 0], as reachable_set's loop body would read
\* with the names left unchanged, in place of visited[prev_node, 0]
ReturnEdge_WrongNode(g, visited, stack, node, prev_node) ==
    LET data == get_edge_data(g, prev_node, node)
    IN IF ~visited[prev_node][data.action] /\ data.safe
       THEN LET v1 == [visited EXCEPT ![prev_node][data.action] = TRUE]
            IN IF ~v1[node][0]
               THEN [visited |-> [v1 EXCEPT ![prev_node][0] = TRUE],
                     stack |-> Append(stack, prev_node),
                     assigned |-> <<<<prev_node, data.action>>, <<prev_node, 0>>>>]
               ELSE [visited |-> v1, stack |-> stack,
                     assigned |-> <<<<prev_node, data.action>>>>]
       ELSE [visited |-> visited, stack |-> stack, assigned |-> <<>>]

\* ReturnEdge without the test of data['safe']
ReturnEdge_IgnoreSafe(g, visited, stack, node, prev_node) ==
    LET data == get_edge_data(g, prev_node, node)
    IN IF ~visited[prev_node][data.action]
       THEN LET v1 == [visited EXCEPT ![prev_node][data.action] = TRUE]
            IN IF ~v1[prev_node][0]
               THEN [visited |-> [v1 EXCEPT ![prev_node][0] = TRUE],
                     stack |-> Append(stack, prev_node),
                     assigned |-> <<<<prev_node, data.action>>, <<prev_node, 0>>>>]
               ELSE [visited |-> v1, stack |-> stack,
                     assigned |-> <<<<prev_node, data.action>>>>]
       ELSE [visited |-> visited, stack |-> stack, assigned |-> <<>>]

\* one iteration of the for loop over the reverse edges leaving node; the
\* data dict is the one of the forward edge prev_node -> node
ReturnEdge(g, visited, stack, node, prev_node) ==
    LET data == get_edge_data(g, prev_node, node)
    IN IF ~visited[prev_node][data.action] /\ data.safe
       THEN LET v1 == [visited EXCEPT ![prev_node][data.action] = TRUE]
            IN IF ~v1[prev_node][0]
               THEN [visited |-> [v1 EXCEPT ![prev_node][0] = TRUE],
                     stack |-> Append(stack, prev_node),
                     assigned |-> <<<<prev_node, data.action>>, <<prev_node, 0>>>>]
               ELSE [visited |-> v1, stack |-> stack,
                     assigned |-> <<<<prev_node, data.action>>>>]
       ELSE [visited |-> visited, stack |-> stack, assigned |-> <<>>]

RECURSIVE ReturnEdges(_, _, _, _, _)
ReturnEdges(g, visited, stack, node, prevs) ==
    IF prevs = <<>> THEN [visited |-> visited, stack |-> stack]
    ELSE LET r == ReturnEdge(g, visited, stack, node, Head(prevs))
         IN ReturnEdges(g, r.visited, r.stack, node, Tail(prevs))

RECURSIVE ReturnLoop(_, _, _, _)
ReturnLoop(g, rg, visited, stack) ==
    IF stack = <<>> THEN visited
    ELSE LET r == ReturnEdges(g, visited, Tail(stack), Head(stack), rg[Head(stack)])
         IN ReturnLoop(g, rg, r.visited, r.stack)

returnable_set(g, rg, initial_nodes, out) ==
    IF initial_nodes = <<>>
    THEN [raised |-> TRUE, out |-> out]
    ELSE [raised |-> FALSE,
          out |-> ReturnLoop(g, rg, MarkSeeds(out, initial_nodes), initial_nodes)]

(***************************************************************************)
(* The mirror of a graph, as graph.reverse() builds it: every edge         *)
(* reversed, its data dict (action and safe) copied.                       *)
(***************************************************************************)
RECURSIVE MirrorEdges(_, _, _)
MirrorEdges(g, v, prevs) ==
    IF prevs = <<>> THEN <<>>
    ELSE LET d == get_edge_data(g, Head(prevs), v)
         IN <<[next |-> Head(prevs), action |-> d.action, safe |-> d.safe]>>
            \o MirrorEdges(g, v, Tail(prevs))

Mirror(g) == [v \in Nodes |-> MirrorEdges(g, v, reverse(g)[v])]

(***************************************************************************)
(* Reachability by chains of safe edges, as sets (the reference the        *)
(* traversals are compared with).                                          *)
(***************************************************************************)
SafeSuccessors(g, S) == {e.next : e \in {d \in UNION {Range(g[u]) : u \in S} : d.safe}}

SafePredecessors(g, S) == {u \in Nodes : \E d \in Range(g[u]) : d.safe /\ d.next \in S}

RECURSIVE ForwardClosure(_, _)
ForwardClosure(g, S) ==
    LET T == S \cup SafeSuccessors(g, S) IN IF T = S THEN S ELSE ForwardClosure(g, T)

RECURSIVE BackwardClosure(_, _)
BackwardClosure(g, S) ==
    LET T == S \cup SafePredecessors(g, S) IN IF T = S THEN S ELSE BackwardClosure(g, T)

Column0(m) == {n \in DOMAIN m : m[n][0]}

(***************************************************************************)
(* State.  graph .. raised are the fields of a SafeMDP object and the      *)
(* outcome of its last compute_S_hat call; fn, visited, stack, node, todo  *)
(* and pc are the frame of one reachable_set / returnable_set call;        *)
(* pushes and marks count, for that call, the appends to the queue and the *)
(* assignments of True to each cell.                                       *)
(***************************************************************************)
VARIABLES graph, graph_reverse, S_hat0, initial_nodes, reach, S_hat, raised,
          fn, visited, stack, node, todo, pc, pushes, marks

vars == <<graph, graph_reverse, S_hat0, initial_nodes, reach, S_hat, raised,
          fn, visited, stack, node, todo, pc, pushes, marks>>

objVars == <<S_hat0, reach, S_hat, raised>>

frameVars == <<stack, node, todo, pc, pushes, marks>>

None == "none"

\* the value of the local variable node before it is first bound
NoNode == NumNodes

RECURSIVE SeqsUpTo(_, _)
SeqsUpTo(S, k) ==
    IF k = 0 THEN {<<>>}
    ELSE SeqsUpTo(S, k - 1) \cup {Append(s, x) : s \in SeqsUpTo(S, k - 1), x \in S}

\* the seed lists a caller may pass: any order, repetitions allowed
SeedLists == SeqsUpTo(Nodes, MaxSeedLen) \ {<<>>}

(***************************************************************************)
(* SpecFn: reachable_set and returnable_set as functions, each applied to  *)
(* an all-false out matrix for inputs drawn at the start.                  *)
(***************************************************************************)
InitFn ==
    /\ graph \in GraphsWithin(MaxCallEdges)
    /\ graph_reverse \in ReverseViews(graph)
    /\ initial_nodes \in SeedLists
    /\ fn = None
    /\ visited = AllFalse(graph)
    /\ S_hat0 = None /\ reach = None /\ S_hat = None /\ raised = FALSE
    /\ stack = <<>> /\ node = NoNode /\ todo = <<>> /\ pc = None
    /\ pushes = None /\ marks = None

CallReachable ==
    /\ fn = None
    /\ fn' = "reachable_set"
    /\ visited' = reachable_set(graph, initial_nodes, visited).out
    /\ UNCHANGED <<graph, graph_reverse, initial_nodes, objVars, frameVars>>

CallReturnable ==
    /\ fn = None
    /\ fn' = "returnable_set"
    /\ visited' = returnable_set(graph, graph_reverse, initial_nodes, visited).out
    /\ UNCHANGED <<graph, graph_reverse, initial_nodes, objVars, frameVars>>

NextFn == CallReachable \/ CallReturnable

SpecFn == InitFn /\ [][NextFn]_vars

(***************************************************************************)
(* Spec: a SafeMDP object from the end of __init__ on.  Its operations are *)
(* compute_S_hat and the relabelling of an edge's safe flag by the code    *)
(* that owns the safety estimate.                                          *)
(***************************************************************************)
\* np.empty: the cells of reach hold whatever the allocation left there, so
\* the matrix has no determinate content (it is written as the empty function)
Uninitialized == <<>>

\* what reading cell (n, a) of a matrix may yield
ReadCell(m, n, a) == IF m = Uninitialized THEN BOOLEAN ELSE {m[n][a]}

RECURSIVE NonZeroUpTo(_, _)
NonZeroUpTo(col, k) ==
    IF k = 0 THEN <<>>
    ELSE IF (k - 1) \in col THEN Append(NonZeroUpTo(col, k - 1), k - 1)
         ELSE NonZeroUpTo(col, k - 1)

\* S_hat0[:, 0].nonzero()[0].tolist(): the marked nodes in ascending order
nonzero(m) == NonZeroUpTo(Column0(m), NumNodes)

\* the initial safe sets a caller passes: any set of nodes in column 0 (the
\* empty one too), the transition cells all false or all true
InitialSafeSets(g) ==
    {[n \in Nodes |-> [a \in Columns(g) |-> IF a = 0 THEN n \in S ELSE t]] :
        S \in SUBSET Nodes, t \in BOOLEAN}

Init ==
    /\ graph \in SafetyGraphs
    /\ graph_reverse \in ReverseViews(graph)
    /\ S_hat0 \in InitialSafeSets(graph)
    /\ S_hat = S_hat0
    /\ initial_nodes = nonzero(S_hat0)
    /\ reach = Uninitialized
    /\ raised = FALSE
    /\ fn = None /\ visited = None
    /\ stack = <<>> /\ node = NoNode /\ todo = <<>> /\ pc = None
    /\ pushes = None /\ marks = None

\* compute_S_hat without the final S_hat &= reach
ComputeResult_NoIntersect(g, rg, seeds, old_S_hat) ==
    LET r1 == reachable_set(g, seeds, AllFalse(g))
        r2 == returnable_set(g, rg, seeds, AllFalse(g))
    IN IF r1.raised
       THEN [reach |-> r1.out, S_hat |-> old_S_hat, raised |-> TRUE]
       ELSE [reach |-> r1.out, S_hat |-> r2.out, raised |-> r2.raised]

\* compute_S_hat with S_hat |= reach in place of S_hat &= reach
ComputeResult_Union(g, rg, seeds, old_S_hat) ==
    LET r1 == reachable_set(g, seeds, AllFalse(g))
        r2 == returnable_set(g, rg, seeds, AllFalse(g))
    IN IF r1.raised
       THEN [reach |-> r1.out, S_hat |-> old_S_hat, raised |-> TRUE]
       ELSE [reach |-> r1.out,
             S_hat |-> [n \in Nodes |-> [a \in Columns(g) |->
                           r2.out[n][a] \/ r1.out[n][a]]],
             raised |-> r2.raised]

\* compute_S_hat without S_hat[:] = False before returnable_set
ComputeResult_NoClear(g, rg, seeds, old_S_hat) ==
    LET r1 == reachable_set(g, seeds, AllFalse(g))
        r2 == returnable_set(g, rg, seeds, old_S_hat)
    IN IF r1.raised
       THEN [reach |-> r1.out, S_hat |-> old_S_hat, raised |-> TRUE]
       ELSE [reach |-> r1.out, S_hat |-> And(r2.out, r1.out), raised |-> r2.raised]

\* compute_S_hat clearing both matrices before the first traversal
ComputeResult_ClearBoth(g, rg, seeds, old_S_hat) ==
    LET r1 == reachable_set(g, seeds, AllFalse(g))
        r2 == returnable_set(g, rg, seeds, AllFalse(g))
    IN IF r1.raised
       THEN [reach |-> r1.out, S_hat |-> AllFalse(g), raised |-> TRUE]
       ELSE [reach |-> r1.out, S_hat |-> And(r2.out, r1.out), raised |-> r2.raised]

\* the body of compute_S_hat on the object's fields: what it leaves in reach
\* and S_hat and whether it raised
ComputeResult(g, rg, seeds, old_S_hat) ==
    LET r1 == reachable_set(g, seeds, AllFalse(g))
        r2 == returnable_set(g, rg, seeds, AllFalse(g))
    IN IF r1.raised
       THEN [reach |-> r1.out, S_hat |-> old_S_hat, raised |-> TRUE]
       ELSE IF r2.raised
            THEN [reach |-> r1.out, S_hat |-> r2.out, raised |-> TRUE]
            ELSE [reach |-> r1.out, S_hat |-> And(r2.out, r1.out), raised |-> FALSE]

compute_S_hat ==
    LET r == ComputeResult(graph, graph_reverse, initial_nodes, S_hat)
    IN /\ reach' = r.reach
       /\ S_hat' = r.S_hat
       /\ raised' = r.raised
       /\ UNCHANGED <<graph, graph_reverse, S_hat0, initial_nodes, fn, visited, frameVars>>

\* the safe flag of one edge is rewritten
SetEdgeSafety ==
    \E u \in Nodes : \E i \in 1 .. Len(graph[u]) :
        /\ graph' = [graph EXCEPT ![u][i].safe = ~graph[u][i].safe]
        /\ UNCHANGED <<graph_reverse, S_hat0, initial_nodes, reach, S_hat, raised,
                       fn, visited, frameVars>>

Next == compute_S_hat \/ SetEdgeSafety

Spec == Init /\ [][Next]_vars

Seeds == Range(initial_nodes)

Actions == Columns(graph) \ {0}

\* C1: on a graph with one edge per (node, action), reachable_set on an
\* all-false matrix marks in column 0 exactly the seeds and the nodes reachable
\* from a seed by a chain of safe edges, marks cell (n, a), a >= 1, exactly when
\* n is marked and n's edge labelled a is safe, and leaves unmarked every
\* non-seed node whose edges from marked nodes are all unsafe.
C1_ReachableExact ==
    (fn = "reachable_set" /\ UniqueActions(graph)) =>
        /\ Column0(visited) = ForwardClosure(graph, Seeds)
        /\ \A n \in Nodes : \A a \in Actions :
              visited[n][a] <=>
                  (visited[n][0] /\ \E d \in Range(graph[n]) : d.action = a /\ d.safe)
        /\ \A n \in Nodes \ Seeds :
              (\A u \in Column0(visited) : \A d \in Range(graph[u]) : d.next = n => ~d.safe)
                  => ~visited[n][0]

\* a run that marks a non-seed node through a safe edge and leaves another
\* node, entered only by an unsafe edge from a marked node, unmarked
C1_Witness ==
    /\ fn = "reachable_set" /\ UniqueActions(graph)
    /\ \E n \in Nodes \ Seeds : visited[n][0]
    /\ \E n \in Nodes \ Seeds :
          /\ ~visited[n][0]
          /\ \E u \in Column0(visited) : \E d \in Range(graph[u]) : d.next = n /\ ~d.safe

\* C2: returnable_set on an all-false matrix marks in column 0 exactly the
\* seeds and the nodes from which a seed is reachable by a chain of safe edges,
\* and marks cell (p, a), a >= 1, exactly when a forward edge p -> n carrying a
\* is safe and n is marked.
C2_ReturnableExact ==
    fn = "returnable_set" =>
        /\ Column0(visited) = BackwardClosure(graph, Seeds)
        /\ \A p \in Nodes : \A a \in Actions :
              visited[p][a] <=>
                  \E d \in Range(graph[p]) : d.action = a /\ d.safe /\ visited[d.next][0]

\* a run that marks a node two safe edges away from the seed
C2_Witness ==
    /\ fn = "returnable_set"
    /\ \E p \in Nodes \ Seeds :
          /\ visited[p][0]
          /\ \A d \in Range(graph[p]) : d.next \notin Seeds

MirrorRun == reachable_set(Mirror(graph), initial_nodes, AllFalse(graph)).out

\* the cells of the two runs correspond: (p, a) is marked by returnable_set
\* exactly when the mirror run marked (n, a) for a safe forward edge p -> n
\* carrying a, i.e. traversed that edge's mirror n -> p
MirrorAgrees ==
    /\ Column0(visited) = Column0(MirrorRun)
    /\ \A p \in Nodes : \A a \in Actions :
          visited[p][a] <=>
              \E d \in Range(graph[p]) : d.action = a /\ d.safe /\ MirrorRun[d.next][a]

\* C9 as stated: for every graph, returnable_set agrees with reachable_set run
\* on the mirror with the same seeds.
C9_MirrorAlways == fn = "returnable_set" => MirrorAgrees

\* C9 amended: the agreement holds when no two edges into the same node carry
\* the same action, so that the mirror has one edge per (node, action).
C9_MirrorUnique == (fn = "returnable_set" /\ UniqueActions(Mirror(graph))) => MirrorAgrees

\* a returnable_set run on such a graph that marks a non-seed node, where a
\* node with two edges into it has one of them traversed by the mirror run
C9_Witness ==
    /\ fn = "returnable_set" /\ UniqueActions(Mirror(graph))
    /\ \E p \in Nodes \ Seeds : visited[p][0]
    /\ \E n \in Nodes : Len(graph_reverse[n]) >= 2 /\ \E a \in Actions : MirrorRun[n][a]

(***************************************************************************)
(* The matrices the two traversals are to produce, stated from the         *)
(* closures.                                                               *)
(***************************************************************************)
ExpectedReach(g, S) ==
    LET F == ForwardClosure(g, S)
    IN [n \in Nodes |-> [a \in Columns(g) |->
           IF a = 0 THEN n \in F
           ELSE n \in F /\ \E d \in Range(g[n]) : d.action = a /\ d.safe]]

ExpectedReturn(g, S) ==
    LET B == BackwardClosure(g, S)
    IN [n \in Nodes |-> [a \in Columns(g) |->
           IF a = 0 THEN n \in B
           ELSE \E d \in Range(g[n]) : d.action = a /\ d.safe /\ d.next \in B]]

ExpectedSafe(g, S) == And(ExpectedReturn(g, S), ExpectedReach(g, S))

\* the last compute_S_hat call returned and the edge labels have not changed
\* the result since
Fresh ==
    /\ reach # Uninitialized /\ ~raised
    /\ reach = ExpectedReach(graph, Seeds)
    /\ S_hat = ExpectedSafe(graph, Seeds)

\* C3: a compute_S_hat call that returns leaves in S_hat the AND of the
\* reachable and the returnable matrix of the current labels and the seed list:
\* S_hat is within reach, a node of S_hat's column 0 is reachable from and can
\* return to the seeds, and a reachable node with no safe way back is in reach
\* and not in S_hat.
C3_SafeIsIntersection ==
    [][(compute_S_hat /\ ~raised') =>
          /\ S_hat' = ExpectedSafe(graph, Seeds)
          /\ SubsetOf(S_hat', reach')
          /\ \A n \in Column0(S_hat') :
                n \in ForwardClosure(graph, Seeds) /\ n \in BackwardClosure(graph, Seeds)
          /\ \A n \in ForwardClosure(graph, Seeds) \ BackwardClosure(graph, Seeds) :
                reach'[n][0] /\ ~S_hat'[n][0]]_vars

\* after a call, a node that is reachable and cannot return
C3_Witness == Fresh /\ \E n \in Nodes : reach[n][0] /\ ~S_hat[n][0]

\* C4: initial_nodes stays the list taken from S_hat0 at construction, a
\* compute_S_hat call that returns leaves the matrices the current labels and
\* that list determine, whatever reach and S_hat held before, and a second call
\* right after it changes nothing.
C4_HistoryIndependent ==
    /\ [](initial_nodes = nonzero(S_hat0))
    /\ [][compute_S_hat =>
             /\ ~raised' => /\ reach' = ExpectedReach(graph, Seeds)
                            /\ S_hat' = ExpectedSafe(graph, Seeds)
             /\ ComputeResult(graph', graph_reverse', initial_nodes', S_hat')
                   = [reach |-> reach', S_hat |-> S_hat', raised |-> raised']]_vars

\* after a call, a transition cell of the initial safe set that did not survive
C4_Witness ==
    /\ Fresh
    /\ \E n \in Nodes : \E a \in Actions : S_hat0[n][a] /\ ~S_hat[n][a]
    /\ \E n \in Nodes : S_hat[n][0] /\ ~S_hat0[n][0]

EdgeSlots(g) == {e \in Nodes \X (1 .. MaxEdges) : e[2] <= Len(g[e[1]])}

\* g with the edges of X marked safe as well
MarkSafe(g, X) ==
    [u \in Nodes |-> [i \in 1 .. Len(g[u]) |->
        [g[u][i] EXCEPT !.safe = @ \/ (<<u, i>> \in X)]]]

SaferGraphs(g) == {MarkSafe(g, X) : X \in SUBSET EdgeSlots(g)}

\* C5: under any labelling that keeps every safe edge safe and marks further
\* edges safe, compute_S_hat leaves at least the cells it leaves now, in reach
\* and in S_hat.
C5_Monotone ==
    [][(compute_S_hat /\ ~raised') =>
          \A g2 \in SaferGraphs(graph) :
              LET r2 == ComputeResult(g2, graph_reverse, initial_nodes, S_hat)
              IN SubsetOf(reach', r2.reach) /\ SubsetOf(S_hat', r2.S_hat)]_vars

\* after a call, a labelling with one more safe edge that adds a node to S_hat
C5_Witness ==
    /\ Fresh
    /\ \E g2 \in SaferGraphs(graph) :
          Column0(ExpectedSafe(g2, Seeds)) \ Column0(S_hat) # {}

\* C6: once compute_S_hat has run, every seed has column 0 true in reach and in
\* S_hat, whatever the edge labels.
C6_SeedsIncluded ==
    reach # Uninitialized => \A n \in Seeds : reach[n][0] /\ S_hat[n][0]

\* after a call on a graph whose edges are all unsafe, with a seed that has an
\* edge
C6_Witness ==
    /\ Fresh
    /\ \E n \in Seeds : Len(graph[n]) > 0
    /\ \A u \in Nodes : \A d \in Range(graph[u]) : ~d.safe

\* C7 as stated: with no seed, compute_S_hat raises and leaves reach and S_hat
\* as they were.
C7_NoEffect ==
    [][(compute_S_hat /\ initial_nodes = <<>>) =>
          /\ raised'
          /\ S_hat' = S_hat
          /\ \A n \in Nodes : \A a \in Columns(graph) :
                \A v \in ReadCell(reach, n, a) : reach'[n][a] = v]_vars

\* C7 amended: with no seed, compute_S_hat raises before any traversal, S_hat
\* is as it was, and reach has been cleared to all false.
C7_FailsAfterClear ==
    [][(compute_S_hat /\ initial_nodes = <<>>) =>
          raised' /\ S_hat' = S_hat /\ reach' = AllFalse(graph)]_vars

\* after a failed call on an object whose initial safe set has transitions
C7_Witness ==
    /\ initial_nodes = <<>> /\ raised /\ reach = AllFalse(graph)
    /\ \E n \in Nodes : \E a \in Actions : S_hat[n][a]

\* C8 as stated: S_hat is within reach in every state from construction on,
\* whatever the cells of reach read as.
C8_SubsetAlways ==
    \A n \in Nodes : \A a \in Columns(graph) :
        S_hat[n][a] => \A v \in ReadCell(reach, n, a) : v

\* C8 amended: S_hat is within reach in every state after a compute_S_hat call
\* that returned.
C8_SubsetAfterCompute ==
    (reach # Uninitialized /\ ~raised) => SubsetOf(S_hat, reach)

\* after a call that dropped a returnable node because it is not reachable
C8_Witness ==
    /\ Fresh
    /\ \E n \in BackwardClosure(graph, Seeds) : ~reach[n][0]

(***************************************************************************)
(* SpecTrav: one call of reachable_set or returnable_set on an all-false   *)
(* matrix, statement by statement.                                         *)
(***************************************************************************)
RECURSIVE CountIn(_, _)
CountIn(s, x) ==
    IF s = <<>> THEN 0 ELSE (IF Head(s) = x THEN 1 ELSE 0) + CountIn(Tail(s), x)

IsDuplicateFree(s) == \A i, j \in 1 .. Len(s) : i # j => s[i] # s[j]

Pushed(before, after) == SubSeq(after, Len(before) + 1, Len(after))

InitTrav ==
    /\ graph \in GraphsWithin(MaxEdges)
    /\ graph_reverse \in ReverseViews(graph)
    /\ initial_nodes \in SeedLists
    /\ fn \in {"reachable_set", "returnable_set"}
    /\ visited = AllFalse(graph)
    /\ pc = "start"
    /\ stack = <<>> /\ node = NoNode /\ todo = <<>>
    /\ pushes = [n \in Nodes |-> 0]
    /\ marks = [n \in Nodes |-> [a \in Columns(graph) |-> 0]]
    /\ S_hat0 = None /\ reach = None /\ S_hat = None /\ raised = FALSE

\* visited[initial_nodes, 0] = True; stack = list(initial_nodes)
Enter ==
    /\ pc = "start"
    /\ visited' = MarkSeeds(visited, initial_nodes)
    /\ stack' = initial_nodes
    /\ pushes' = [n \in Nodes |-> pushes[n] + CountIn(initial_nodes, n)]
    /\ marks' = [n \in Nodes |->
                    [marks[n] EXCEPT ![0] = @ + CountIn(initial_nodes, n)]]
    /\ pc' = "while"
    /\ UNCHANGED <<graph, graph_reverse, initial_nodes, objVars, fn, node, todo>>

\* while stack: node = stack.pop(0), and the edges the for loop will go over
Pop ==
    /\ pc = "while" /\ stack # <<>>
    /\ node' = Head(stack)
    /\ stack' = Tail(stack)
    /\ todo' = IF fn = "reachable_set" THEN graph[Head(stack)]
               ELSE graph_reverse[Head(stack)]
    /\ pc' = "for"
    /\ UNCHANGED <<graph, graph_reverse, initial_nodes, objVars, fn, visited,
                   pushes, marks>>

Record(r) ==
    /\ visited' = r.visited
    /\ stack' = r.stack
    /\ pushes' = [n \in Nodes |-> pushes[n] + CountIn(Pushed(stack, r.stack), n)]
    /\ marks' = [n \in Nodes |-> [a \in Columns(graph) |->
                    marks[n][a] + CountIn(r.assigned, <<n, a>>)]]

IterateReach ==
    /\ pc = "for" /\ todo # <<>> /\ fn = "reachable_set"
    /\ Record(ReachEdge(visited, stack, node, Head(todo)))
    /\ todo' = Tail(todo)
    /\ UNCHANGED <<graph, graph_reverse, initial_nodes, objVars, fn, node, pc>>

IterateReturn ==
    /\ pc = "for" /\ todo # <<>> /\ fn = "returnable_set"
    /\ Record(ReturnEdge(graph, visited, stack, node, Head(todo)))
    /\ todo' = Tail(todo)
    /\ UNCHANGED <<graph, graph_reverse, initial_nodes, objVars, fn, node, pc>>

EndFor ==
    /\ pc = "for" /\ todo = <<>>
    /\ pc' = "while"
    /\ UNCHANGED <<graph, graph_reverse, initial_nodes, objVars, fn, visited,
                   stack, node, todo, pushes, marks>>

Exit ==
    /\ pc = "while" /\ stack = <<>>
    /\ pc' = "done"
    /\ UNCHANGED <<graph, graph_reverse, initial_nodes, objVars, fn, visited,
                   stack, node, todo, pushes, marks>>

NextTrav == Enter \/ Pop \/ IterateReach \/ IterateReturn \/ EndFor \/ Exit

SpecTrav == InitTrav /\ [][NextTrav]_vars

\* the interpreter runs the call to its end
SpecTravFair == SpecTrav /\ WF_vars(NextTrav)

\* the statement-by-statement run ends with the matrix the whole call computes
TraversalAgrees ==
    pc = "done" =>
        visited = IF fn = "reachable_set"
                  THEN reachable_set(graph, initial_nodes, AllFalse(graph)).out
                  ELSE returnable_set(graph, graph_reverse, initial_nodes,
                                      AllFalse(graph)).out

\* C10: with a duplicate-free seed list and an all-false matrix, both
\* traversals end, with the queue empty, and until then no node is put on the
\* queue twice and no cell is assigned True twice.
C10_Terminates ==
    IsDuplicateFree(initial_nodes) =>
        /\ [](/\ \A n \in Nodes : pushes[n] <= 1
              /\ \A n \in Nodes : \A a \in Columns(graph) : marks[n][a] <= 1
              /\ pc = "done" => stack = <<>>)
        /\ <>(pc = "done")

\* a finished reachable_set run in which a node with safe edges from two marked
\* nodes went on the queue once
C10_Witness ==
    /\ pc = "done" /\ fn = "reachable_set" /\ IsDuplicateFree(initial_nodes)
    /\ \E n \in Nodes \ Seeds :
          /\ pushes[n] = 1
          /\ Cardinality({u \in Column0(visited) :
                 \E d \in Range(graph[u]) : d.next = n /\ d.safe}) >= 2

====
